---- MODULE Spec2Model ----
(***************************************************************************)
(* Model of gptme/tools/__init__.py: the executors an assistant turn is    *)
(* dispatched to (_execute_python, _execute_shell, _execute_load,          *)
(* _execute_save).  Every executor is a Python generator: its body runs    *)
(* only while the consumer asks for the next Message, it suspends at each  *)
(* yield and it blocks at each input().  One session calls the executors   *)
(* one after the other; locals_, the file system and the terminal outlive  *)
(* the calls.                                                              *)
(*                                                                         *)
(* Text is modelled by TLA+ strings (Len, SubSeq and \o act on them as on  *)
(* Python str), so strip(), lower(), startswith() and slicing are computed *)
(* character by character as the code computes them.                       *)
(***************************************************************************)
EXTENDS Integers, Sequences, FiniteSets, TLC

VARIABLES
    pc,        \* position of the running generator: "idle", a blocking point or "done"
    fn,        \* the executor that was called last
    frame,     \* the local variables of that call
    replies,   \* the Messages the call has yielded so far, in order
    raised,    \* the exception that ended the call, "" when none did
    trace,     \* the call's observable steps in the order they happened
    stdout,    \* text statements of the call wrote to the real sys.stdout
    locals_,   \* the evaluation environment (module level, line 127)
    files,     \* the file system: path -> content, NoFile when the path is absent
    ncalls,    \* calls made so far in the session
    memory,    \* the result cache of _llm_summarize and the requests sent out
    linecmd    \* the line _execute_linecmd was given, NoLine for a direct call

vars ==
    <<pc, fn, frame, replies, raised, trace, stdout, locals_, files, ncalls,
      memory, linecmd>>

\* Calls made in one session.
MaxCalls == 3

-----------------------------------------------------------------------------
(* str methods *)

IsSpace(c) == c \in {" ", "\n", "\t", "\r"}

\* s[n:]
Drop(s, n) == SubSeq(s, n + 1, Len(s))

\* str.startswith
StartsWith(s, p) == Len(s) >= Len(p) /\ SubSeq(s, 1, Len(p)) = p

\* str.endswith
EndsWith(s, p) == Len(s) >= Len(p) /\ SubSeq(s, Len(s) - Len(p) + 1, Len(s)) = p

RECURSIVE LStrip(_)
LStrip(s) ==
    IF Len(s) > 0 /\ IsSpace(SubSeq(s, 1, 1)) THEN LStrip(Drop(s, 1)) ELSE s

RECURSIVE RStrip(_)
RStrip(s) ==
    IF Len(s) > 0 /\ IsSpace(SubSeq(s, Len(s), Len(s)))
    THEN RStrip(SubSeq(s, 1, Len(s) - 1))
    ELSE s

\* str.strip
Strip(s) == RStrip(LStrip(s))

LowerChar(c) ==
    CASE c = "Y" -> "y"
      [] c = "E" -> "e"
      [] c = "S" -> "s"
      [] c = "N" -> "n"
      [] c = "O" -> "o"
      [] OTHER -> c

\* str.lower, over the letters the answers are written with
RECURSIVE Lower(_)
Lower(s) ==
    IF Len(s) = 0 THEN s ELSE LowerChar(SubSeq(s, 1, 1)) \o Lower(Drop(s, 1))

\* str.find(sep) for a one-character separator, counted from 1; 0 when absent
Find(s, sep) ==
    LET at == {k \in 1..Len(s) : SubSeq(s, k, k) = sep} IN
    IF at = {} THEN 0 ELSE CHOOSE k \in at : \A m \in at : k <= m

\* str.split(sep) for a one-character separator
RECURSIVE Split(_, _)
Split(s, sep) ==
    LET k == Find(s, sep) IN
    IF k = 0 THEN <<s>> ELSE <<SubSeq(s, 1, k - 1)>> \o Split(Drop(s, k), sep)

\* str.splitlines: a final line break opens no further line
SplitLines(s) ==
    LET parts == Split(s, "\n") IN
    IF parts[Len(parts)] = "" THEN SubSeq(parts, 1, Len(parts) - 1) ELSE parts

\* sep.join(parts)
RECURSIVE Join(_, _)
Join(parts, sep) ==
    IF Len(parts) = 0 THEN ""
    ELSE IF Len(parts) = 1 THEN parts[1]
    ELSE parts[1] \o sep \o Join(Tail(parts), sep)

\* parts[1:-2]
Slice1m2(parts) == SubSeq(parts, 2, Len(parts) - 2)

\* The fence marker of lines 48, 51 and 112-116 (three backquotes), written
\* with a character that TLA+ strings can hold.
Fence == "~~~"

-----------------------------------------------------------------------------
(* Message *)

Message(role, content) == [role |-> role, content |-> content]

-----------------------------------------------------------------------------
(* Python values of the statements the interpreter is given *)

None == [t |-> "NoneType", i |-> 0, s |-> ""]
PyInt(n) == [t |-> "int", i |-> n, s |-> ""]
PyBool(b) == [t |-> "bool", i |-> IF b THEN 1 ELSE 0, s |-> ""]
PyStr(x) == [t |-> "str", i |-> 0, s |-> x]

\* bool(v), the test of "if result:"
Truthy(v) ==
    CASE v.t = "NoneType" -> FALSE
      [] v.t = "int" -> v.i # 0
      [] v.t = "bool" -> v.i # 0
      [] v.t = "str" -> v.s # ""

\* str(v)
Str(v) ==
    CASE v.t = "NoneType" -> "None"
      [] v.t = "int" -> ToString(v.i)
      [] v.t = "bool" -> (IF v.i # 0 THEN "True" ELSE "False")
      [] v.t = "str" -> v.s

Names == {"a"}
Unbound == [t |-> "unbound", i |-> 0, s |-> ""]

-----------------------------------------------------------------------------
(* ast: the top-level statements of the sources the session submits *)

\* One ast.stmt: its node class, its ast.unparse text and what running it does.
Stmt(node, src, op, name, val) ==
    [node |-> node, src |-> src, op |-> op, name |-> name, val |-> val]

Parsed(body) == [ok |-> TRUE, body |-> body, err |-> ""]
ParseFailed(err) == [ok |-> FALSE, body |-> <<>>, err |-> err]

S_sum == Stmt("Expr", "1 + 1", "const", "", PyInt(2))
S_zero == Stmt("Expr", "0", "const", "", PyInt(0))
S_none == Stmt("Expr", "None", "const", "", None)
S_print == Stmt("Expr", "print(1)", "print", "", PyInt(1))
S_div == Stmt("Expr", "1 / 0", "div", "", None)
S_a == Stmt("Expr", "a", "name", "a", None)
S_a2 == Stmt("Assign", "a = 2", "assign", "a", PyInt(2))
S_a3 == Stmt("Assign", "a = 3", "assign", "a", PyInt(3))
S_aug == Stmt("AugAssign", "a += 1", "aug", "a", PyInt(1))
S_ifprint == Stmt("If", "if True:\n    print(1)", "print", "", PyInt(1))

\* ast.parse(code).body, tabulated for the sources of the session
AstParse(code) ==
    CASE code = "1 + 1" -> Parsed(<<S_sum>>)
      [] code = "1+1" -> Parsed(<<S_sum>>)
      [] code = "0" -> Parsed(<<S_zero>>)
      [] code = "None" -> Parsed(<<S_none>>)
      [] code = "print(1)" -> Parsed(<<S_print>>)
      [] code = "a" -> Parsed(<<S_a>>)
      [] code = "a = 2\na" -> Parsed(<<S_a2, S_a>>)
      [] code = "a = 3\n1/0\na = 2" -> Parsed(<<S_a3, S_div, S_a2>>)
      [] code = "if True:\n    print(1)" -> Parsed(<<S_ifprint>>)
      [] code = "a += 1" -> Parsed(<<S_aug>>)
      [] OTHER -> ParseFailed("invalid syntax (<unknown>, line 1)")

\* The source texts given to _execute_python.
Sources ==
    {"1 + 1", " 1+1\n", "0", "None", "print(1)", "a", "a = 2\na",
     "a = 3\n1/0\na = 2", "if True:\n    print(1)", "a =", "a += 1"}

\* What input() returns at a confirmation prompt.
Answers == {"", "y", "Y", "yes", "Yes", "n", "No", "y "}

-----------------------------------------------------------------------------
(* Running one statement *)

Ran(value, printed, env) ==
    [raised |-> FALSE, exc |-> "", msg |-> "", value |-> value,
     printed |-> printed, env |-> env]

Raises(exc, msg, env) ==
    [raised |-> TRUE, exc |-> exc, msg |-> msg, value |-> None,
     printed |-> "", env |-> env]

\* The statement's own behaviour in the environment env.
Effect(stmt, env) ==
    CASE stmt.op = "const" -> Ran(stmt.val, "", env)
      [] stmt.op = "name" ->
            IF env[stmt.name] = Unbound
            THEN Raises("NameError", "name '" \o stmt.name \o "' is not defined", env)
            ELSE Ran(env[stmt.name], "", env)
      [] stmt.op = "assign" -> Ran(None, "", [env EXCEPT ![stmt.name] = stmt.val])
      [] stmt.op = "print" -> Ran(None, Str(stmt.val) \o "\n", env)
      [] stmt.op = "div" -> Raises("ZeroDivisionError", "division by zero", env)
      [] stmt.op = "aug" ->
            IF env[stmt.name] = Unbound
            THEN Raises("NameError", "name '" \o stmt.name \o "' is not defined", env)
            ELSE Ran(None, "",
                     [env EXCEPT ![stmt.name] = PyInt(@.i + stmt.val.i)])

\* The isinstance chain of lines 173-189: these node classes go to exec.
ExecNodes ==
    {"Assign", "AnnAssign", "Assert", "ClassDef", "FunctionDef", "Import",
     "ImportFrom", "If", "For", "While", "With", "Try", "AsyncFor",
     "AsyncFunctionDef", "AsyncWith"}

UsesExec(stmt) == stmt.node \in ExecNodes

\* Lines 190-192: exec under redirect_stdout; result is the captured text, stripped.
ExecBranch(stmt, env) ==
    LET r == Effect(stmt, env) IN
    IF r.raised
    THEN [r EXCEPT !.printed = ""] @@ [leaked |-> ""]
    ELSE [r EXCEPT !.value = PyStr(Strip(r.printed)), !.printed = ""]
         @@ [leaked |-> ""]

\* Line 194: eval, with sys.stdout as it is; eval compiles expressions only.
EvalBranch(stmt, env) ==
    IF stmt.node # "Expr"
    THEN Raises("SyntaxError", "invalid syntax (<string>, line 1)", env)
         @@ [leaked |-> ""]
    ELSE LET r == Effect(stmt, env) IN
         [r EXCEPT !.printed = ""] @@ [leaked |-> r.printed]

\* A statement run against a copy of the environment: its bindings are lost.
RunStmt_copyenv(stmt, env) ==
    [(IF UsesExec(stmt) THEN ExecBranch(stmt, env) ELSE EvalBranch(stmt, env))
        EXCEPT !.env = env]

\* Lines 171-194 for one statement.
RunStmt(stmt, env) ==
    IF UsesExec(stmt) THEN ExecBranch(stmt, env) ELSE EvalBranch(stmt, env)

\* Lines 170 and 195-198: what one statement adds to output.
StmtOutput(stmt, r) ==
    ">>> " \o stmt.src \o "\n"
    \o (IF r.raised THEN r.exc \o ": " \o r.msg \o "\n"
        ELSE IF Truthy(r.value) THEN Str(r.value) \o "\n"
        ELSE "")

-----------------------------------------------------------------------------
(* The session *)

\* One step of trace: what happened, at which statement or line of the input
\* (0 when there is only one), and for input() the answer it returned, for a
\* statement the class of the exception it raised ("" when none).
Ev(ev, n) == [ev |-> ev, n |-> n, a |-> ""]
InputEv(n, answer) == [ev |-> "input", n |-> n, a |-> answer]
StmtEv(n, exc) == [ev |-> "stmt", n |-> n, a |-> exc]

NoFile == "<absent>"
NoLine == "<direct call>"

\* What the file system holds at path (os.path.exists, open).
FileAt(fs, path) == IF path \in DOMAIN fs THEN fs[path] ELSE NoFile
Paths == {"f.py", "g.py"}

Init ==
    /\ pc = "idle"
    /\ fn = ""
    /\ frame = [ask |-> FALSE]
    /\ replies = <<>>
    /\ raised = ""
    /\ trace = <<>>
    /\ stdout = ""
    /\ locals_ = [n \in Names |-> Unbound]
    /\ files = [p \in Paths |-> IF p = "g.py" THEN "y = 1\n" ELSE NoFile]
    /\ ncalls = 0
    /\ memory = [cache |-> <<>>, requests |-> <<>>]
    /\ linecmd = NoLine

\* The consumer starts a call once the previous one is over.
CanCall == pc \in {"idle", "done"} /\ ncalls < MaxCalls

NewCall(f) ==
    /\ fn' = f
    /\ replies' = <<>>
    /\ raised' = ""
    /\ stdout' = ""
    /\ ncalls' = ncalls + 1

-----------------------------------------------------------------------------
(* _execute_python *)

\* A gate that also takes the empty answer, as the other three prompts do.
PyAffirmative_empty(confirm) == Lower(confirm) \in {"y", "Y", "", "yes"}

\* Line 158: the answers the interpreter's gate accepts.
PyAffirmative(confirm) == Lower(confirm) \in {"y", "yes"}

\* A decline that yields nothing, as _execute_shell's does.
AbortedReply_none == <<>>

\* Lines 204-205: what the call yields when the gate is not passed.
AbortedReply == <<Message("system", "Aborted, user chose not to run command.")>>

\* Lines 144-148: strip the code, show it and block in input() when ask is set.
PyStart(code, ask) ==
    /\ CanCall
    /\ NewCall("_execute_python")
    /\ frame' = [code |-> Strip(code), ask |-> ask, confirm |-> "",
                 statements |-> <<>>, i |-> 1, output |-> "",
                 error_during_execution |-> FALSE]
    /\ trace' = IF ask THEN <<Ev("preview", 0)>> ELSE <<>>
    /\ pc' = IF ask THEN "py_input" ELSE "py_gate"
    /\ UNCHANGED <<locals_, files, memory>>

\* The consumer calls _execute_python itself.
PyCall(code, ask) == PyStart(code, ask) /\ linecmd' = NoLine

\* Line 148: input() returns.
PyInput(answer) ==
    /\ pc = "py_input"
    /\ frame' = [frame EXCEPT !.confirm = answer]
    /\ trace' = Append(trace, InputEv(0, answer))
    /\ pc' = "py_gate"
    /\ UNCHANGED <<fn, replies, raised, stdout, locals_, files, ncalls, memory, linecmd>>

\* A gate whose except clause yields the SyntaxError and goes on into the loop.
PyGate_noreturn ==
    /\ pc = "py_gate"
    /\ IF ~frame.ask \/ PyAffirmative(frame.confirm)
       THEN LET p == AstParse(frame.code) IN
            IF p.ok
            THEN /\ frame' = [frame EXCEPT !.statements = p.body]
                 /\ trace' = Append(trace, Ev("parse", 0))
                 /\ pc' = "py_loop"
                 /\ UNCHANGED replies
            ELSE /\ replies' = Append(replies,
                        Message("system", "SyntaxError: " \o p.err))
                 /\ trace' = Append(Append(trace, Ev("parse", 0)), Ev("yield", 0))
                 /\ pc' = "py_loop"
                 /\ UNCHANGED frame
       ELSE /\ replies' = replies \o AbortedReply
            /\ trace' = Append(trace, Ev("yield", 0))
            /\ pc' = "py_yield"
            /\ UNCHANGED frame
    /\ UNCHANGED <<fn, raised, stdout, locals_, files, ncalls, memory, linecmd>>

\* Lines 157-166 and 204-205: the gate, then ast.parse.
PyGate ==
    /\ pc = "py_gate"
    /\ IF ~frame.ask \/ PyAffirmative(frame.confirm)
       THEN LET p == AstParse(frame.code) IN
            IF p.ok
            THEN /\ frame' = [frame EXCEPT !.statements = p.body]
                 /\ trace' = Append(trace, Ev("parse", 0))
                 /\ pc' = "py_loop"
                 /\ UNCHANGED replies
            ELSE /\ replies' = Append(replies,
                        Message("system", "SyntaxError: " \o p.err))
                 /\ trace' = Append(Append(trace, Ev("parse", 0)), Ev("yield", 0))
                 /\ pc' = "py_yield"
                 /\ UNCHANGED frame
       ELSE /\ replies' = replies \o AbortedReply
            /\ trace' = Append(trace, Ev("yield", 0))
            /\ pc' = "py_yield"
            /\ UNCHANGED frame
    /\ UNCHANGED <<fn, raised, stdout, locals_, files, ncalls, memory, linecmd>>

\* A loop whose except clause does not break.
LoopDone_nobreak(f) == f.i > Len(f.statements)

\* Lines 168 and 199-200: the loop ends with the last statement or at the break.
LoopDone(f) == f.error_during_execution \/ f.i > Len(f.statements)

\* Lines 168-200: one iteration of the loop over statements.
PyStmt ==
    /\ pc = "py_loop"
    /\ ~LoopDone(frame)
    /\ LET stmt == frame.statements[frame.i]
           r == RunStmt(stmt, locals_)
       IN /\ frame' = [frame EXCEPT !.output = @ \o StmtOutput(stmt, r),
                                    !.error_during_execution = @ \/ r.raised,
                                    !.i = @ + 1]
          /\ locals_' = r.env
          /\ stdout' = stdout \o r.leaked
          /\ trace' = Append(trace, StmtEv(frame.i, r.exc))
    /\ UNCHANGED <<pc, fn, replies, raised, files, ncalls, memory, linecmd>>

\* Lines 201-203: the loop is over or was broken out of; yield the transcript.
PyFinish ==
    /\ pc = "py_loop"
    /\ LoopDone(frame)
    /\ LET out == IF frame.error_during_execution
                  THEN frame.output \o "Error during execution, aborting."
                  ELSE frame.output
       IN /\ frame' = [frame EXCEPT !.output = out]
          /\ replies' = Append(replies, Message("system", out))
    /\ trace' = Append(trace, Ev("yield", 0))
    /\ pc' = "py_yield"
    /\ UNCHANGED <<fn, raised, stdout, locals_, files, ncalls, memory, linecmd>>

\* The consumer asks for the next Message: the generator returns.
PyResume ==
    /\ pc = "py_yield"
    /\ pc' = "done"
    /\ UNCHANGED <<fn, frame, replies, raised, trace, stdout, locals_, files,
                   ncalls, memory, linecmd>>

-----------------------------------------------------------------------------
(* _execute_shell *)

\* The command lines given to _execute_shell.
Commands == {"ls", " $ ls x\n"}

\* What subprocess.run reports: stdout, stderr and the return code.
ProcOut == {"", "\n", "f.py\n"}
ProcErr == {"", "ls: x: No such file\n"}
ProcCodes == {0, 2}

\* A gate that runs the command unless the answer is a plain no.
ShAffirmative_notno(confirm) == Lower(confirm) \notin {"n", "no"}

\* Line 108: the answers the shell's gate accepts.
ShAffirmative(confirm) == Lower(confirm) \in {"y", "Y", "", "yes"}

\* Lines 95-97
ShellCmd(cmd) ==
    LET c == Strip(cmd) IN IF StartsWith(c, "$ ") THEN Drop(c, Len("$ ")) ELSE c

\* A report that says 'No output' whenever stdout is empty, whatever stderr holds.
ShellReport_stdoutonly(cmd, out, err, returncode) ==
    LET so == Strip(out)
        se == Strip(err)
    IN "Ran command:\n~~~bash\n" \o cmd \o "\n~~~\n\n"
       \o (IF so # "" THEN "Output:\n\n~~~bash\n" \o so \o "\n~~~\n\n" ELSE "")
       \o (IF se # "" THEN "Error:\n\n~~~bash\n" \o se \o "\n~~~\n\n" ELSE "")
       \o (IF so = "" THEN "No output\n\n" ELSE "")
       \o (IF returncode # 0 THEN "Return code: " \o ToString(returncode)
           ELSE "Ran successfully")

\* Lines 110-122: the report of a run command.
ShellReport(cmd, out, err, returncode) ==
    LET so == Strip(out)
        se == Strip(err)
    IN "Ran command:\n~~~bash\n" \o cmd \o "\n~~~\n\n"
       \o (IF so # "" THEN "Output:\n\n~~~bash\n" \o so \o "\n~~~\n\n" ELSE "")
       \o (IF se # "" THEN "Error:\n\n~~~bash\n" \o se \o "\n~~~\n\n" ELSE "")
       \o (IF so = "" /\ se = "" THEN "No output\n\n" ELSE "")
       \o (IF returncode # 0 THEN "Return code: " \o ToString(returncode)
           ELSE "Ran successfully")

\* Lines 95-101: clean the command, show it and block in input() when ask is set.
ShStart(cmd, ask) ==
    /\ CanCall
    /\ NewCall("_execute_shell")
    /\ frame' = [cmd |-> ShellCmd(cmd), ask |-> ask, confirm |-> "",
                 stdout |-> "", stderr |-> "", returncode |-> 0]
    /\ trace' = IF ask THEN <<Ev("preview", 0)>> ELSE <<>>
    /\ pc' = IF ask THEN "sh_input" ELSE "sh_gate"
    /\ UNCHANGED <<locals_, files, memory>>

\* The consumer calls _execute_shell itself.
ShCall(cmd, ask) == ShStart(cmd, ask) /\ linecmd' = NoLine

\* Line 101: input() returns.
ShInput(answer) ==
    /\ pc = "sh_input"
    /\ frame' = [frame EXCEPT !.confirm = answer]
    /\ trace' = Append(trace, InputEv(0, answer))
    /\ pc' = "sh_gate"
    /\ UNCHANGED <<fn, replies, raised, stdout, locals_, files, ncalls, memory, linecmd>>

\* Lines 108-124: the gate is passed; run the subprocess and yield its report.
ShRun(out, err, returncode) ==
    /\ pc = "sh_gate"
    /\ ~frame.ask \/ ShAffirmative(frame.confirm)
    /\ frame' = [frame EXCEPT !.stdout = Strip(out), !.stderr = Strip(err),
                              !.returncode = returncode]
    /\ replies' = Append(replies,
            Message("system", ShellReport(frame.cmd, out, err, returncode)))
    /\ trace' = Append(Append(trace, Ev("subprocess", 0)), Ev("yield", 0))
    /\ pc' = "sh_yield"
    /\ UNCHANGED <<fn, raised, stdout, locals_, files, ncalls, memory, linecmd>>

\* A decline that reports itself, as _execute_python's does.
ShDecline_reports ==
    /\ pc = "sh_gate"
    /\ ~(~frame.ask \/ ShAffirmative(frame.confirm))
    /\ replies' = Append(replies,
            Message("system", "Aborted, user chose not to run command."))
    /\ pc' = "done"
    /\ UNCHANGED <<fn, frame, raised, trace, stdout, locals_, files,
                   ncalls, memory, linecmd>>

\* Line 108, condition false: the generator ends without a Message.
ShDecline ==
    /\ pc = "sh_gate"
    /\ ~(~frame.ask \/ ShAffirmative(frame.confirm))
    /\ pc' = "done"
    /\ UNCHANGED <<fn, frame, replies, raised, trace, stdout, locals_, files,
                   ncalls, memory, linecmd>>

\* The consumer asks for the next Message: the generator returns.
ShResume ==
    /\ pc = "sh_yield"
    /\ pc' = "done"
    /\ UNCHANGED <<fn, frame, replies, raised, trace, stdout, locals_, files,
                   ncalls, memory, linecmd>>

-----------------------------------------------------------------------------
(* _execute_load *)

\* Line 62: the answers the load prompt accepts.
LoadAffirmative(confirm) == Lower(confirm) \in {"y", "Y", "", "yes"}

\* Line 56: the generator is created with its argument.
LoadStart(filename) ==
    /\ CanCall
    /\ NewCall("_execute_load")
    /\ frame' = [filename |-> filename, confirm |-> "", ask |-> TRUE]
    /\ trace' = <<>>
    /\ pc' = "load_start"
    /\ UNCHANGED <<locals_, files, memory>>

\* The consumer calls _execute_load itself.
LoadCall(filename) == LoadStart(filename) /\ linecmd' = NoLine

\* Lines 57-61: os.path.exists; a missing file is reported with a yield,
\* an existing one takes the generator straight to input().
LoadExists ==
    /\ pc = "load_start"
    /\ IF FileAt(files, frame.filename) = NoFile
       THEN /\ replies' = Append(replies, Message("system",
                    "Tried to load file '" \o frame.filename
                    \o "', but it does not exist."))
            /\ trace' = Append(Append(trace, Ev("exists", 0)), Ev("yield", 0))
            /\ pc' = "load_yield_missing"
       ELSE /\ trace' = Append(trace, Ev("exists", 0))
            /\ pc' = "load_input"
            /\ UNCHANGED replies
    /\ UNCHANGED <<fn, frame, raised, stdout, locals_, files, ncalls, memory, linecmd>>

\* The consumer asks for the Message after the report of line 58: the body
\* goes on at line 61 and blocks in input().
LoadResumeMissing ==
    /\ pc = "load_yield_missing"
    /\ pc' = "load_input"
    /\ UNCHANGED <<fn, frame, replies, raised, trace, stdout, locals_, files,
                   ncalls, memory, linecmd>>

\* Lines 61-65: input() returns; on an accepted answer the file is opened and read.
LoadInput(answer) ==
    /\ pc = "load_input"
    /\ frame' = [frame EXCEPT !.confirm = answer]
    /\ IF LoadAffirmative(answer)
       THEN IF FileAt(files, frame.filename) = NoFile
            THEN /\ raised' = "FileNotFoundError"
                 /\ trace' = Append(Append(trace, InputEv(0, answer)), Ev("open_r", 0))
                 /\ pc' = "done"
                 /\ UNCHANGED replies
            ELSE /\ replies' = Append(replies, Message("system",
                        "# filename: " \o frame.filename \o "\n\n"
                        \o FileAt(files, frame.filename)))
                 /\ trace' = Append(Append(Append(trace, InputEv(0, answer)),
                                           Ev("open_r", 0)), Ev("yield", 0))
                 /\ pc' = "load_yield"
                 /\ UNCHANGED raised
       ELSE /\ trace' = Append(trace, InputEv(0, answer))
            /\ pc' = "done"
            /\ UNCHANGED <<replies, raised>>
    /\ UNCHANGED <<fn, stdout, locals_, files, ncalls, memory, linecmd>>

\* The consumer asks for the next Message: the generator returns.
LoadResume ==
    /\ pc = "load_yield"
    /\ pc' = "done"
    /\ UNCHANGED <<fn, frame, replies, raised, trace, stdout, locals_, files,
                   ncalls, memory, linecmd>>

-----------------------------------------------------------------------------
(* _execute_save *)

\* The texts given to _execute_save.
Texts ==
    {"~~~python\nx = 1\n~~~\n// save: f.py",
     "~~~\nx = 1\n~~~\n// save: f.py",
     "// save: f.py",
     "~~~python\nx = 1\n// save: f.py",
     "~~~py\nx\n~~~\n// save: f.py\n~~~py\ny\nz\n~~~\n  // save: g.py\n",
     "~~~python\nx = 1",
     "~~~\nx = 1",
     "// save: g.py"}

\* A gate that compares the answer as typed.
SaveAffirmative_nolower(confirm) == confirm \in {"y", "Y", "", "yes"}

\* Line 43: the answers the save prompt accepts.
SaveAffirmative(confirm) == Lower(confirm) \in {"y", "Y", "", "yes"}

\* Line 36
IsSaveLine(line) == StartsWith(Strip(line), "// save:")

\* Line 37
SaveFilename(line) == Strip(Split(line, ":")[2])

\* Line 38
SaveContent(prev_codeblock) == Join(Slice1m2(Split(prev_codeblock, "\n")), "\n")

\* Line 51
BlockComplete(codeblock) ==
    StartsWith(codeblock, Fence) /\ EndsWith(Strip(codeblock), Fence)

\* Lines 48-53 for one line, then on to the next line.
ScanFence(f, line) ==
    IF StartsWith(line, Fence) \/ f.codeblock # ""
    THEN LET cb == f.codeblock \o line \o "\n" IN
         IF BlockComplete(cb)
         THEN [f EXCEPT !.prev_codeblock = cb, !.codeblock = "", !.i = @ + 1]
         ELSE [f EXCEPT !.codeblock = cb, !.i = @ + 1]
    ELSE [f EXCEPT !.i = @ + 1]

\* Lines 31-35: the generator starts scanning.
SaveCall(text) ==
    /\ CanCall
    /\ NewCall("_execute_save")
    /\ frame' = [lines |-> SplitLines(text), i |-> 1, prev_codeblock |-> "",
                 codeblock |-> "", filename |-> "", content |-> "",
                 confirm |-> "", ask |-> TRUE]
    /\ trace' = <<>>
    /\ pc' = "save_loop"
    /\ linecmd' = NoLine
    /\ UNCHANGED <<locals_, files, memory>>

\* Lines 35-42 and 48-53: the next line; a save directive shows its preview
\* and blocks in input(), any other line goes through the fence scan.
SaveLine ==
    /\ pc = "save_loop"
    /\ frame.i <= Len(frame.lines)
    /\ LET line == frame.lines[frame.i] IN
       IF IsSaveLine(line)
       THEN /\ frame' = [frame EXCEPT !.filename = SaveFilename(line),
                                      !.content = SaveContent(frame.prev_codeblock)]
            /\ trace' = Append(trace, Ev("preview", frame.i))
            /\ pc' = "save_input"
       ELSE /\ frame' = ScanFence(frame, line)
            /\ UNCHANGED <<trace, pc>>
    /\ UNCHANGED <<fn, replies, raised, stdout, locals_, files, ncalls, memory, linecmd>>

\* A scanner that collects its Messages instead of yielding them: it does not
\* wait for the consumer and goes on with the text at once.
SaveInput_eager(answer) ==
    /\ pc = "save_input"
    /\ frame' = ScanFence([frame EXCEPT !.confirm = answer], frame.lines[frame.i])
    /\ IF SaveAffirmative(answer)
       THEN /\ files' = (frame.filename :> frame.content) @@ files
            /\ trace' = Append(Append(Append(trace, InputEv(frame.i, answer)),
                                      Ev("open_w", frame.i)), Ev("yield", frame.i))
       ELSE /\ trace' = Append(Append(trace, InputEv(frame.i, answer)),
                               Ev("yield", frame.i))
            /\ UNCHANGED files
    /\ replies' = Append(replies, Message("system", "Saved to " \o frame.filename))
    /\ pc' = "save_loop"
    /\ UNCHANGED <<fn, raised, stdout, locals_, ncalls, memory, linecmd>>

\* Lines 42-46: input() returns; the file is written on an accepted answer
\* and the Message is yielded.
SaveInput(answer) ==
    /\ pc = "save_input"
    /\ frame' = [frame EXCEPT !.confirm = answer]
    /\ IF SaveAffirmative(answer)
       THEN /\ files' = (frame.filename :> frame.content) @@ files
            /\ trace' = Append(Append(Append(trace, InputEv(frame.i, answer)),
                                      Ev("open_w", frame.i)), Ev("yield", frame.i))
       ELSE /\ trace' = Append(Append(trace, InputEv(frame.i, answer)),
                               Ev("yield", frame.i))
            /\ UNCHANGED files
    /\ replies' = Append(replies, Message("system", "Saved to " \o frame.filename))
    /\ pc' = "save_yield"
    /\ UNCHANGED <<fn, raised, stdout, locals_, ncalls, memory, linecmd>>

\* The consumer asks for the next Message: lines 48-53 for the directive's
\* line, then the loop goes on.
SaveResume ==
    /\ pc = "save_yield"
    /\ frame' = ScanFence(frame, frame.lines[frame.i])
    /\ trace' = Append(trace, Ev("next", frame.i))
    /\ pc' = "save_loop"
    /\ UNCHANGED <<fn, replies, raised, stdout, locals_, files,
                   ncalls, memory, linecmd>>

\* Line 35: no line is left; the generator returns.
SaveEnd ==
    /\ pc = "save_loop"
    /\ frame.i > Len(frame.lines)
    /\ pc' = "done"
    /\ UNCHANGED <<fn, frame, replies, raised, trace, stdout, locals_, files,
                   ncalls, memory, linecmd>>

-----------------------------------------------------------------------------
(* summarize, _llm_summarize *)

\* str.split(): the words between runs of whitespace.  Any whitespace
\* position splits the range into two ranges that are split on their own.
RECURSIVE WordsIn(_, _, _)
WordsIn(s, lo, hi) ==
    IF lo > hi THEN <<>>
    ELSE LET mid == (lo + hi) \div 2
             sp(k) == IsSpace(SubSeq(s, k, k))
         IN IF \E k \in mid..hi : sp(k)
            THEN LET m == CHOOSE k \in mid..hi : sp(k)
                 IN WordsIn(s, lo, m - 1) \o WordsIn(s, m + 1, hi)
            ELSE IF \E k \in lo..mid : sp(k)
            THEN LET m == CHOOSE k \in lo..mid : sp(k)
                 IN WordsIn(s, lo, m - 1) \o WordsIn(s, m + 1, hi)
            ELSE <<SubSeq(s, lo, hi)>>

SplitWords(s) == WordsIn(s, 1, Len(s))

\* " ".join(words[lo:hi]) of a long list, joined half by half.
RECURSIVE JoinRange(_, _, _, _)
JoinRange(words, lo, hi, sep) ==
    IF lo > hi THEN ""
    ELSE IF lo = hi THEN words[lo]
    ELSE LET mid == (lo + hi) \div 2
         IN JoinRange(words, lo, mid, sep) \o sep \o JoinRange(words, mid + 1, hi, sep)

\* Lines 233, 235 and 237: the length over which a text is cut, and how many
\* words of its beginning and of its end are kept.
MaxTokens == 200
BeginningWords == 150
EndWords == 100

\* len_tokens: one token for each word.
LenTokens(content) == Len(SplitWords(content))

\* Lines 233-240: the text summarize hands to _llm_summarize.
SummarizeInput(content) ==
    IF LenTokens(content) > MaxTokens
    THEN LET words == SplitWords(content)
             n == Len(words)
             beginning == JoinRange(words, 1, IF n < BeginningWords THEN n
                                                ELSE BeginningWords, " ")
             end == JoinRange(words, IF n > EndWords THEN n - EndWords + 1 ELSE 1,
                              n, " ")
         IN beginning \o "\n...\n" \o end
    ELSE content

\* memory.cache: the results kept by argument, and whether one is kept.
CacheHit(mem, key) == key \in DOMAIN mem.cache
CacheStore(mem, key, value) == [mem EXCEPT !.cache = @ @@ (key :> value)]

\* Lines 217-222: the request sent to the completion endpoint.
LlmRequest(content) ==
    "Please summarize the following:\n" \o content \o "\n\nSummary:"

\* The function without its decorator: every call goes out.
LlmSummarize_undecorated(mem, content, response) ==
    [summary |-> response,
     memory  |-> CacheStore([mem EXCEPT !.requests = Append(@, LlmRequest(content))],
                            content, response)]

\* Lines 214-228: _llm_summarize under @memory.cache.  The body runs, and the
\* request goes out, only when the cache holds no result for content.
LlmSummarize(mem, content, response) ==
    IF CacheHit(mem, content)
    THEN [summary |-> mem.cache[content], memory |-> mem]
    ELSE [summary |-> response,
          memory  |-> CacheStore([mem EXCEPT !.requests = Append(@, LlmRequest(content))],
                                 content, response)]

\* n copies of s
RECURSIVE Repeat(_, _)
Repeat(s, n) ==
    IF n = 0 THEN ""
    ELSE IF n = 1 THEN s
    ELSE Repeat(s, n \div 2) \o Repeat(s, n - n \div 2)

\* The texts given to summarize: a short one, one of 201 words, and two of
\* 251 words that differ in their 151st word only.
LongText(middle) == Repeat("a ", 150) \o middle \o Repeat(" d", 100)
Contents == {"ok", Repeat("b ", 200) \o "b", LongText("x"), LongText("y")}

\* What the completion endpoint answers.
Responses == {"s1", "s2"}

\* The input of _llm_summarize for each of the texts.
InputOf == [c \in Contents |-> SummarizeInput(c)]

\* Lines 231-241: summarize(msg) returns the Message that carries the summary.
Summarize(content, response) ==
    /\ CanCall
    /\ LET r == LlmSummarize(memory, InputOf[content], response)
       IN /\ memory' = r.memory
          /\ frame' = [content |-> content, summary |-> r.summary]
          /\ replies' = <<Message("system",
                            "Here is a summary of the response:\n" \o r.summary)>>
    /\ fn' = "summarize"
    /\ pc' = "done"
    /\ raised' = ""
    /\ stdout' = ""
    /\ trace' = <<>>
    /\ ncalls' = ncalls + 1
    /\ linecmd' = NoLine
    /\ UNCHANGED <<locals_, files>>

-----------------------------------------------------------------------------
(* _execute_linecmd *)

\* The lines given to _execute_linecmd.
Lines ==
    {"terminal: ls", "python: 1 + 1", "// load: g.py", "  // load: g.py", "hello"}

\* Lines 70-78: the executor a line goes to and the argument it is given.
\* The generator delegates with yield from, so the executor's steps are its
\* own; a line with none of the prefixes ends it at once.
LineCmd(l) ==
    /\ linecmd' = l
    /\ IF StartsWith(l, "terminal: ")
       THEN ShStart(Drop(l, Len("terminal: ")), TRUE)
       ELSE IF StartsWith(l, "python: ")
       THEN PyStart(Drop(l, Len("python: ")), TRUE)
       ELSE IF StartsWith(Strip(l), "// load: ")
       THEN LoadStart(Drop(l, Len("load: ")))
       ELSE /\ CanCall
            /\ NewCall("_execute_linecmd")
            /\ frame' = [ask |-> FALSE]
            /\ trace' = <<>>
            /\ pc' = "done"
            /\ UNCHANGED <<locals_, files, memory>>

-----------------------------------------------------------------------------

Next ==
    \/ \E code \in Sources, ask \in BOOLEAN : PyCall(code, ask)
    \/ \E answer \in Answers : PyInput(answer)
    \/ PyGate
    \/ PyStmt
    \/ PyFinish
    \/ PyResume
    \/ \E cmd \in Commands, ask \in BOOLEAN : ShCall(cmd, ask)
    \/ \E answer \in Answers : ShInput(answer)
    \/ \E out \in ProcOut, err \in ProcErr, rc \in ProcCodes : ShRun(out, err, rc)
    \/ ShDecline
    \/ ShResume
    \/ \E filename \in Paths : LoadCall(filename)
    \/ LoadExists
    \/ LoadResumeMissing
    \/ \E answer \in Answers : LoadInput(answer)
    \/ LoadResume
    \/ \E text \in Texts : SaveCall(text)
    \/ SaveLine
    \/ \E answer \in Answers : SaveInput(answer)
    \/ SaveResume
    \/ SaveEnd
    \/ \E content \in Contents, response \in Responses : Summarize(content, response)
    \/ \E l \in Lines : LineCmd(l)

Spec == Init /\ [][Next]_vars

-----------------------------------------------------------------------------
(* Properties *)

\* The positions of trace where a step of the given kind happened.
Events(kind) == {k \in 1..Len(trace) : trace[k].ev = kind}

\* The steps that are an executor's effect: a subprocess run, the execution
\* of a statement, a file write, a file read.
IsEffect(e) == e.ev \in {"subprocess", "stmt", "open_w", "open_r"}

\* p occurs in s / how many times
Occurrences(s, p) ==
    {k \in 1..(Len(s) - Len(p) + 1) : SubSeq(s, k, k + Len(p) - 1) = p}
Contains(s, p) == Occurrences(s, p) # {}

\* 'y', 'yes' and the empty string in every spelling of upper and lower case.
YesTokens ==
    {"", "y", "Y", "yes", "yeS", "yEs", "yES", "Yes", "YeS", "YEs", "YES"}

AbortedText == "Aborted, user chose not to run command."
MarkerText == "Error during execution, aborting."

PyOver == fn = "_execute_python" /\ pc \in {"py_yield", "done"}

C2_GateBeforeEffect ==
    (\/ fn \in {"_execute_save", "_execute_load"}
     \/ (fn \in {"_execute_python", "_execute_shell"} /\ frame.ask))
    => \A k \in 1..Len(trace) :
          IsEffect(trace[k]) =>
             \E j \in 1..(k - 1) :
                /\ trace[j].ev = "input"
                /\ fn = "_execute_save" => trace[j].n = trace[k].n
                /\ trace[j].a \in YesTokens

\* A confirmed shell command has been run after its prompt was answered.
C2_Witness ==
    /\ fn = "_execute_shell"
    /\ frame.ask
    /\ Events("input") # {}
    /\ Events("subprocess") # {}

\* C3, as amended: with confirmation required, the empty answer is a decline
\* for _execute_python: the source is not parsed, no statement is executed
\* and the Message is the 'Aborted' one.
C3_EmptyAnswerDeclines ==
    (PyOver /\ frame.ask /\ frame.confirm = "") =>
        /\ replies = <<Message("system", AbortedText)>>
        /\ Events("parse") = {}
        /\ Events("stmt") = {}

\* C3 as stated: the empty answer is affirmative, the source is parsed and
\* the Message is the transcript.
C3_EmptyAnswerRuns ==
    (PyOver /\ frame.ask /\ frame.confirm = "") =>
        /\ Events("parse") # {}
        /\ Len(replies) = 1
        /\ replies[1].content # AbortedText

\* The prompt of _execute_python was answered with the empty string.
C3_Witness ==
    /\ PyOver
    /\ frame.ask
    /\ frame.confirm = ""
    /\ Events("input") # {}
    /\ Len(replies) = 1

\* C4: for the shell executor and the save and load handlers an answer is
\* affirmative exactly when it is 'y', 'yes' or empty, whatever its case: the
\* effect is performed for these answers and for no other.
C4_AffirmativeTokens ==
    /\ (fn = "_execute_shell" /\ frame.ask /\ pc \in {"sh_yield", "done"}) =>
          (Events("subprocess") # {} <=> frame.confirm \in YesTokens)
    /\ (fn = "_execute_load" /\ pc \in {"load_yield", "done"}) =>
          (Events("open_r") # {} <=> frame.confirm \in YesTokens)
    /\ fn = "_execute_save" =>
          \A j \in Events("input") :
             (\E k \in Events("open_w") : trace[k].n = trace[j].n)
                <=> trace[j].a \in YesTokens

\* A save prompt answered 'Yes' has written the block to its file.
C4_Witness ==
    /\ fn = "_execute_save"
    /\ \E j \in Events("input") : trace[j].a = "Yes"
    /\ Events("open_w") # {}
    /\ files["f.py"] = "x = 1"

\* C5: the statements run one at a time in source order; when statement k is
\* the first to fail, no later statement runs, the transcript has the prompt
\* lines of statements 1..k, one '<ErrorKind>: ' line and ends with the
\* marker; when none fails every statement runs once and the marker is absent.
C5_FailFast ==
    (PyOver /\ Events("parse") # {} /\ AstParse(frame.code).ok) =>
        LET body == frame.statements
            E == SelectSeq(trace, LAMBDA e : e.ev = "stmt")
            m == Len(E)
            out == replies[1].content
        IN /\ \A j \in 1..m : E[j].n = j
           /\ \A j \in 1..(m - 1) : E[j].a = ""
           /\ (m >= 1 /\ E[m].a # "") =>
                 /\ Cardinality(Occurrences(out, ">>> ")) = m
                 /\ \A j \in 1..m : Contains(out, ">>> " \o body[j].src \o "\n")
                 /\ Cardinality(Occurrences(out, "\n" \o E[m].a \o ": ")) = 1
                 /\ EndsWith(out, "\n" \o MarkerText)
           /\ (m = 0 \/ E[m].a = "") =>
                 /\ m = Len(body)
                 /\ Cardinality(Occurrences(out, ">>> ")) = m
                 /\ ~Contains(out, MarkerText)

\* The three-statement source has stopped at its failing second statement.
C5_Witness ==
    /\ PyOver
    /\ Len(frame.statements) = 3
    /\ Cardinality(Events("stmt")) = 2
    /\ \E k \in Events("stmt") : trace[k].a = "ZeroDivisionError"
    /\ locals_["a"] = PyInt(3)

\* C6: _execute_shell yields exactly one Message, after exactly one subprocess
\* run, when the command is run (no confirmation required, or an affirmative
\* answer); it yields no Message and runs no subprocess when the user declines.
C6_ShellReplies ==
    (fn = "_execute_shell" /\ pc = "done") =>
        IF ~frame.ask \/ frame.confirm \in YesTokens
        THEN /\ Len(replies) = 1
             /\ StartsWith(replies[1].content, "Ran command:\n")
             /\ Cardinality(Events("subprocess")) = 1
             /\ raised = ""
        ELSE /\ replies = <<>>
             /\ Events("subprocess") = {}
             /\ raised = ""

\* A declined shell command is over without a Message.
C6_Witness ==
    /\ fn = "_execute_shell"
    /\ pc = "done"
    /\ frame.ask
    /\ frame.confirm = "n"
    /\ replies = <<>>

\* C7: a source of one side-effect-free expression e, run with confirmation
\* disabled, gives the transcript '>>> ' e newline, followed by the text of
\* the value and a newline whenever the value is not None and not empty
\* (0 and False count as values), and by nothing when the value is None.
C7_SingleExpression ==
    (PyOver /\ ~frame.ask /\ Len(frame.statements) = 1
     /\ frame.statements[1].node = "Expr" /\ frame.statements[1].op = "const") =>
        LET e == frame.statements[1].src
            v == frame.statements[1].val
        IN replies[1].content =
              IF v.t = "NoneType" \/ (v.t = "str" /\ v.s = "")
              THEN ">>> " \o e \o "\n"
              ELSE ">>> " \o e \o "\n" \o Str(v) \o "\n"

\* C8: the environment persists.  No step of any call removes a binding; a
\* binding changes only when an assignment to that name completes, and then
\* to the assigned value; and an expression statement that reads a bound name
\* shows the value the environment holds for it.
C8_EnvPersists ==
    [][/\ \A n \in Names :
            /\ locals_[n] # Unbound => locals_'[n] # Unbound
            /\ locals_'[n] # locals_[n] =>
                  /\ pc = "py_loop" /\ pc' = "py_loop"
                  /\ frame.statements[frame.i].node = "Assign"
                  /\ frame.statements[frame.i].name = n
                  /\ ~frame'.error_during_execution
       /\ (pc = "py_loop" /\ pc' = "py_loop") =>
            LET st == frame.statements[frame.i] IN
            /\ (st.node = "Assign" /\ ~frame'.error_during_execution) =>
                  locals_'[st.name] = st.val
            /\ (st.node = "Expr" /\ st.op = "name" /\ locals_[st.name] # Unbound) =>
                  frame'.output = frame.output \o ">>> " \o st.src \o "\n"
                                  \o Str(locals_[st.name]) \o "\n"
      ]_vars

\* The third call reads the name a call before it bound.
C8_Witness ==
    /\ PyOver
    /\ ncalls = 3
    /\ frame.code = "a"
    /\ Len(replies) = 1
    /\ replies[1].content = ">>> a\n2\n"

\* C9: text printed by a statement the interpreter executes, whether it goes
\* to exec or to eval, never reaches the real standard output.
C9_NothingEscapes == stdout = ""

\* C10: _execute_load of a path that does not exist yields the one Message
\* saying so and finishes: no prompt, no attempt to open the file, no further
\* Message and no exception.
C10_MissingFileEnds ==
    (fn = "_execute_load" /\ Len(replies) >= 1
     /\ StartsWith(replies[1].content, "Tried to load file '")) =>
        /\ pc \in {"load_yield_missing", "done"}
        /\ Len(replies) = 1
        /\ Events("input") = {}
        /\ Events("open_r") = {}
        /\ raised = ""

\* The fence lines and the save directives among the lines before line k.
FenceLinesBefore(k) ==
    {j \in 1..(k - 1) : StartsWith(frame.lines[j], Fence)}
DirectivesBefore(k) ==
    {j \in 1..(k - 1) : StartsWith(Strip(frame.lines[j]), "// save:")}

\* C11: a fenced block that is opened but not closed by a later fence line
\* never becomes the previously completed block and produces no Message,
\* whether its opening line carries a language tag or is the bare marker.
C11_UnterminatedNotCompleted ==
    fn = "_execute_save" =>
        /\ Cardinality(FenceLinesBefore(Len(frame.lines) + 1)) < 2 =>
              frame.prev_codeblock = ""
        /\ DirectivesBefore(frame.i + 1) = {} => replies = <<>>

\* C12: the scanner yields one Message per save directive, in the order of
\* the directives; the events of a later directive never come before those of
\* an earlier one, and the preview of a directive never comes after a yield
\* unless the consumer has asked for the next Message in between; the call
\* ends after the last line.
C12_LazyInOrder ==
    fn = "_execute_save" =>
        LET D == SelectSeq([k \in 1..Len(frame.lines) |-> k],
                           LAMBDA k : StartsWith(Strip(frame.lines[k]), "// save:"))
            upto == IF pc = "save_yield" THEN frame.i + 1 ELSE frame.i
        IN /\ Len(replies) = Cardinality(DirectivesBefore(upto))
           /\ \A r \in 1..Len(replies) :
                 replies[r] = Message("system",
                     "Saved to " \o Strip(Split(frame.lines[D[r]], ":")[2]))
           /\ \A j, k \in 1..Len(trace) :
                 trace[j].n < trace[k].n => j < k
           /\ \A k \in Events("preview") : \A j \in Events("yield") :
                 j < k => \E m \in Events("next") : j < m /\ m < k
           /\ pc = "done" =>
                 /\ frame.i = Len(frame.lines) + 1
                 /\ Len(replies) = Len(D)
                 /\ raised = ""

\* The second directive of a text has shown its preview, after the consumer
\* took the first Message and asked for the next.
C12_Witness ==
    /\ fn = "_execute_save"
    /\ pc = "save_input"
    /\ Len(replies) = 1
    /\ Cardinality(Events("preview")) = 2
    /\ Events("next") # {}

\* C13: the report of a run command holds the 'Output:' section exactly when
\* the trimmed stdout is not empty, the 'Error:' section exactly when the
\* trimmed stderr is not empty, 'No output' exactly when both are empty, and
\* ends with 'Return code: <n>' for a nonzero exit code n and with
\* 'Ran successfully' for zero.
C13_ReportSections ==
    (fn = "_execute_shell" /\ pc \in {"sh_yield", "done"} /\ Len(replies) = 1) =>
        LET c == replies[1].content IN
        /\ StartsWith(c, "Ran command:\n~~~bash\n" \o frame.cmd \o "\n~~~\n\n")
        /\ Contains(c, "\n\nOutput:\n\n~~~bash\n" \o frame.stdout \o "\n~~~\n\n")
              <=> frame.stdout # ""
        /\ Contains(c, "Output:") <=> frame.stdout # ""
        /\ Contains(c, "\n\nError:\n\n~~~bash\n" \o frame.stderr \o "\n~~~\n\n")
              <=> frame.stderr # ""
        /\ Contains(c, "Error:") <=> frame.stderr # ""
        /\ Contains(c, "No output\n\n") <=> (frame.stdout = "" /\ frame.stderr = "")
        /\ frame.returncode # 0 =>
              EndsWith(c, "\n\nReturn code: " \o ToString(frame.returncode))
        /\ frame.returncode = 0 => EndsWith(c, "\n\nRan successfully")
        /\ Contains(c, "Return code:") <=> frame.returncode # 0
        /\ Contains(c, "Ran successfully") <=> frame.returncode = 0

\* A command that wrote to stderr only and exited with code 2 has been reported.
C13_Witness ==
    /\ fn = "_execute_shell"
    /\ pc = "done"
    /\ Len(replies) = 1
    /\ frame.stdout = ""
    /\ frame.stderr # ""
    /\ frame.returncode = 2

\* The running call is of the interpreter, and ast.parse has refused its source.
ParseRefused ==
    /\ fn = "_execute_python"
    /\ Events("parse") # {}
    /\ ~AstParse(frame.code).ok

\* C14: when the source fails to parse, the only result is one Reply that
\* starts with 'SyntaxError:'; no statement is executed, no prompt-marker
\* line is emitted, and the environment is left as it was.
C14_ParseFailure ==
    /\ [](ParseRefused =>
            /\ pc \in {"py_yield", "done"}
            /\ Len(replies) = 1
            /\ replies[1].role = "system"
            /\ StartsWith(replies[1].content, "SyntaxError:")
            /\ ~Contains(replies[1].content, ">>> ")
            /\ Events("stmt") = {}
            /\ Cardinality(Events("yield")) = 1
            /\ frame.output = ""
            /\ stdout = ""
            /\ raised = "")
    /\ [][(fn = "_execute_python" /\ ~AstParse(frame.code).ok /\ pc # "done")
              => locals_' = locals_]_vars

\* The call on a source that does not parse is over, with a name bound before it.
C14_Witness ==
    /\ ParseRefused
    /\ pc = "done"
    /\ frame.code = "a ="
    /\ locals_["a"] # Unbound

\* The requests sent out so far for the input a text is cut to.
RequestsFor(mem, content) ==
    {k \in 1..Len(mem.requests) : mem.requests[k] = LlmRequest(InputOf[content])}

C16_ClassificationTotal ==
    fn = "_execute_python" =>
        \A k \in Events("stmt") :
            LET stmt == frame.statements[trace[k].n] IN
            /\ UsesExec(stmt) <=> stmt.node # "Expr"
            /\ stmt.node # "Expr" => trace[k].a # "SyntaxError"

\* The fence lines before line k, in the order of the text.
FenceSeqBefore(k) ==
    SelectSeq([j \in 1..(k - 1) |-> j], LAMBDA j : StartsWith(frame.lines[j], Fence))

\* The body lines of the block most recently closed before line k: fence
\* lines open and close blocks in turn, and the last pair encloses the body.
LastBlockBody(k) ==
    LET F == FenceSeqBefore(k)
        closed == Len(F) \div 2
    IN Join(SubSeq(frame.lines, F[2 * closed - 1] + 1, F[2 * closed] - 1), "\n")

\* C17: when a fenced block, tagged or not, precedes a save directive, the
\* content previewed and written is the body lines of the most recently
\* completed block joined by newlines, without the two fence lines.
C17_ContentIsBlockBody ==
    (/\ fn = "_execute_save"
     /\ pc \in {"save_input", "save_yield"}
     /\ Len(FenceSeqBefore(frame.i)) >= 2) =>
        /\ frame.content = LastBlockBody(frame.i)
        /\ (pc = "save_yield" /\ SaveAffirmative(frame.confirm)) =>
              FileAt(files, frame.filename) = LastBlockBody(frame.i)

\* C18: _execute_linecmd hands the executor the text after the prefix: the
\* command after 'terminal: ', the code after 'python: ', the path after
\* '// load: ' (leading whitespace allowed); any other line yields nothing.
C18_ArgumentAfterPrefix ==
    linecmd # NoLine =>
        IF StartsWith(linecmd, "terminal: ")
        THEN fn = "_execute_shell" /\ frame.cmd = ShellCmd(Drop(linecmd, Len("terminal: ")))
        ELSE IF StartsWith(linecmd, "python: ")
        THEN fn = "_execute_python" /\ frame.code = Strip(Drop(linecmd, Len("python: ")))
        ELSE IF StartsWith(Strip(linecmd), "// load: ")
        THEN fn = "_execute_load"
             /\ frame.filename = Drop(Strip(linecmd), Len("// load: "))
        ELSE fn = "_execute_linecmd" /\ pc = "done" /\ replies = <<>>

\* C19: 'Saved to <filename>' is yielded only when the file was written; a
\* declined prompt writes no file and yields no such Reply.
C19_SavedOnlyWhenWritten ==
    fn = "_execute_save" =>
        /\ \A k \in Events("yield") :
              \E j \in Events("open_w") : j < k /\ trace[j].n = trace[k].n
        /\ \A k \in Events("open_w") :
              \E j \in Events("input") :
                 j < k /\ trace[j].n = trace[k].n /\ SaveAffirmative(trace[j].a)

\* C20: a save directive with no completed block before it is reported as
\* an error ('no codeblock to save') and writes no file, whatever the answer.
C20_NoBlockNoWrite ==
    fn = "_execute_save" =>
        /\ \A k \in Events("open_w") : Len(FenceSeqBefore(trace[k].n)) >= 2
        /\ (pc = "save_yield" /\ Len(FenceSeqBefore(frame.i)) < 2) =>
              /\ Contains(replies[Len(replies)].content, "no codeblock to save")
              /\ ~StartsWith(replies[Len(replies)].content, "Saved to")

====
